---- MODULE Spec2Model ----
(***************************************************************************)
(* Session scheduling and authentication of the tattoo studio backend.     *)
(*                                                                         *)
(* The scheduling part follows backend/services/session_service.py,        *)
(* backend/repositories/session_repository.py and                          *)
(* backend/routes/sessions.py.  The database is the SQLite file configured *)
(* in backend/config/config.py: three tables, of which `sessions` is       *)
(* written by the scheduler and `users` and `clients` are only read by it; *)
(* backend/repositories/client_repository.py deletes rows of `clients`.    *)
(* Each request runs in one worker; SessionService.create_session opens    *)
(* one database session for its checks (lines 75-100) and a second one,    *)
(* inside SessionRepository.create, for the insert (line 103), so a        *)
(* create is two steps of the model and every other operation is one.      *)
(*                                                                         *)
(* The authentication part follows backend/auth/routes.py,                 *)
(* backend/auth/services/google_service.py and backend/models/user.py.     *)
(* It writes table `users` and the caller's Flask session, the signed      *)
(* cookie that carries the keys "user", "jwt_token", "credentials" and     *)
(* "flow_state" from one request of a browser to its next.  The handlers   *)
(* of auth/routes.py open their database session by hand and close it on   *)
(* the paths that call close(); the scheduler and the client routes go     *)
(* through the context manager of backend/utils/database.py.               *)
(***************************************************************************)
EXTENDS Integers, FiniteSets

\* ------------------------------------------------------------------ bounds

\* Times of day are the slots 0..MaxTime (only their order matters).
MaxTime == 3
\* No session id above MaxId is assigned: a create that would need one waits.
MaxId == 2

Times == 0..MaxTime
Dates == {1, 2}
\* Ids a request may name for an artist or a client (not all of them exist).
UserIds == {1, 2, 3}
ClientIds == {1, 2}
SessionIds == 1..MaxId
Workers == {1, 2}

\* SQL NULL / Python None in the notes column.
NULL == "NULL"

\* ------------------------------------------------------- the wire payload

\* A JSON member that deserializes to x, an absent member, and a member the
\* field's deserializer rejects.
Val(x) == [tag |-> "val", v |-> x]
Missing == [tag |-> "missing"]
Malformed == [tag |-> "malformed"]

RequiredFields == {"artist_id", "client_id", "date", "start_time", "end_time"}
SchemaFields == RequiredFields \cup {"notes"}

RawPayload(a, c, d, s, e, n) ==
    [artist_id |-> a, client_id |-> c, date |-> d,
     start_time |-> s, end_time |-> e, notes |-> n]

\* The fields marshmallow reports: a required field that is absent, or any
\* field whose value does not deserialize.
FieldErrors(raw) ==
    {f \in SchemaFields :
        \/ raw[f] = Malformed
        \/ f \in RequiredFields /\ raw[f] = Missing}

\* SessionSchema.load: the typed values.  notes is optional; when absent the
\* column keeps its default, NULL.
Loaded(raw) ==
    [artist_id |-> raw.artist_id.v, client_id |-> raw.client_id.v,
     date |-> raw.date.v, start_time |-> raw.start_time.v,
     end_time |-> raw.end_time.v,
     notes |-> IF raw.notes = Missing THEN NULL ELSE raw.notes.v]

\* ------------------------------------------------------------------ state

VARIABLES
    session,    \* the caller's Flask session (one browser)
    users,      \* the rows of table users
    clients,    \* the rows of table clients
    sessions,   \* the rows of table sessions
    pc,         \* per worker: "idle", or "persist" between check and insert
    loaded,     \* per worker: the validated payload awaiting its insert
    last,       \* the response of the operation that completed last
    now,        \* the clock, in hours
    links,      \* the password-reset tokens that were handed out
    held        \* the operations that returned without closing their
                \* database session

vars == <<session, users, clients, sessions, pc, loaded, last, now, links, held>>

NoPayload == [artist_id |-> 0, client_id |-> 0, date |-> 0,
              start_time |-> 0, end_time |-> 0, notes |-> NULL]

\* The "error" member of the 400 and 404 bodies.
ErrTimeRange == "End time must be after start time."
ErrArtist == "Artist not found."
ErrClient == "Client not found."
ErrConflict == "Scheduling conflict: artist already has a session in this time range."
ErrSession == "Session not found"

\* What the caller is answered: the operation, its result (an error message,
\* or "created" 201, "updated" 200, "no_content" 204, "field_errors" 400,
\* "db_error" for an exception nobody handles, "pass" while a create is
\* between its checks and its insert), the id of the dumped session and the
\* conflict_session_id member; 0 where the body has no such member.
Response(op, kind, id, conflict) ==
    [op |-> op, kind |-> kind, id |-> id, conflict_session_id |-> conflict]

\* The password_hash column of a row that was inserted without set_password.
NoHash == [scheme |-> NULL, secret |-> NULL]

\* A row of table users.
UserRow(id, email, name, hash) ==
    [id |-> id, email |-> email, name |-> name, password_hash |-> hash]

\* A row of table clients: its id and the user that owns it.
ClientRow(id, user_id) == [id |-> id, user_id |-> user_id]

\* A Flask session in which none of the four keys is present; a key that is
\* present holds Val(x).
EmptySession ==
    [user |-> Missing, jwt_token |-> Missing, credentials |-> Missing,
     flow_state |-> Missing]

\* Two users (artists) and one client are registered, no session is booked
\* yet and the browser has no cookie.
Init ==
    /\ session = EmptySession
    /\ users = {UserRow(1, "artist@example.com", "Artist", NoHash),
                UserRow(2, "artist2@example.com", "Artist 2", NoHash)}
    /\ clients = {ClientRow(1, 1)}
    /\ sessions = {}
    /\ pc = [w \in Workers |-> "idle"]
    /\ loaded = [w \in Workers |-> NoPayload]
    /\ last = Response("none", "none", 0, 0)
    /\ now = 0
    /\ links = {}
    /\ held = {}

\* ------------------------------------------------------------ the tables

Ids(S) == {s.id : s \in S}

Max(N) == CHOOSE n \in N : \A m \in N : m <= n

\* An id drawn from the number of rows instead of the largest id.
NewIdByCount(S) == Cardinality(S) + 1

\* sessions.id is INTEGER PRIMARY KEY: SQLite assigns one more than the
\* largest id in the table.
NewId(S) == IF S = {} THEN 1 ELSE Max(Ids(S)) + 1

Row(id, p) ==
    [id |-> id, artist_id |-> p.artist_id, client_id |-> p.client_id,
     date |-> p.date, start_time |-> p.start_time, end_time |-> p.end_time,
     notes |-> p.notes]

OverlapsStartInside(s, p) ==
    /\ s.artist_id = p.artist_id
    /\ s.date = p.date
    /\ s.start_time <= p.start_time
    /\ s.end_time > p.start_time

OverlapsClosed(s, p) ==
    /\ s.artist_id = p.artist_id
    /\ s.date = p.date
    /\ s.start_time <= p.end_time
    /\ s.end_time >= p.start_time

\* The WHERE clause of the overlap query.
Overlaps(s, p) ==
    /\ s.artist_id = p.artist_id
    /\ s.date = p.date
    /\ s.start_time < p.end_time
    /\ s.end_time > p.start_time

ConflictsAnyDate(S, p) ==
    {s \in S : /\ s.artist_id = p.artist_id
               /\ s.start_time < p.end_time
               /\ s.end_time > p.start_time}

ConflictsAnyArtist(S, p) ==
    {s \in S : /\ s.date = p.date
               /\ s.start_time < p.end_time
               /\ s.end_time > p.start_time}

Conflicts(S, p) == {s \in S : Overlaps(s, p)}

EndBeforeStart(p) == p.end_time < p.start_time

EndNotAfterStart(p) == p.end_time <= p.start_time

ArtistUnchecked(U, p) == TRUE

ArtistExists(U, p) == \E u \in U : u.id = p.artist_id

ClientExists(C, p) == \E c \in C : c.id = p.client_id

\* --------------------------------------------------------- create_session

\* Steps 1-4 with the client looked up ahead of the artist.
CheckOutcomesClientFirst(raw, S, U, C) ==
    IF FieldErrors(raw) # {} THEN
        {Response("create", "field_errors", 0, 0)}
    ELSE IF EndNotAfterStart(Loaded(raw)) THEN
        {Response("create", ErrTimeRange, 0, 0)}
    ELSE IF ~ClientExists(C, Loaded(raw)) THEN
        {Response("create", ErrClient, 0, 0)}
    ELSE IF ~ArtistExists(U, Loaded(raw)) THEN
        {Response("create", ErrArtist, 0, 0)}
    ELSE IF Conflicts(S, Loaded(raw)) # {} THEN
        {Response("create", ErrConflict, 0, c.id) : c \in Conflicts(S, Loaded(raw))}
    ELSE
        {Response("create", "pass", 0, 0)}

\* Steps 1-4 of SessionService.create_session: the responses the checks can
\* end in, "pass" when none of them raises.  first() on a query without
\* ORDER BY may return any of the rows that match.
CheckOutcomes(raw, S, U, C) ==
    IF FieldErrors(raw) # {} THEN
        {Response("create", "field_errors", 0, 0)}
    ELSE IF EndNotAfterStart(Loaded(raw)) THEN
        {Response("create", ErrTimeRange, 0, 0)}
    ELSE IF ~ArtistExists(U, Loaded(raw)) THEN
        {Response("create", ErrArtist, 0, 0)}
    ELSE IF ~ClientExists(C, Loaded(raw)) THEN
        {Response("create", ErrClient, 0, 0)}
    ELSE IF Conflicts(S, Loaded(raw)) # {} THEN
        {Response("create", ErrConflict, 0, c.id) : c \in Conflicts(S, Loaded(raw))}
    ELSE
        {Response("create", "pass", 0, 0)}

InFlight == {w \in Workers : pc[w] = "persist"}

\* Room for one more insert below MaxId, counting the inserts in flight.
HasRoom == NewId(sessions) + Cardinality(InFlight) <= MaxId

\* The insert placed ahead of the overlap query.
CreateCheckWriteFirst(w, raw) ==
    /\ pc[w] = "idle"
    /\ \E o \in CheckOutcomes(raw, sessions, users, clients) :
        /\ last' = o
        /\ IF o.kind = "pass" THEN
                /\ HasRoom
                /\ pc' = [pc EXCEPT ![w] = "persist"]
                /\ loaded' = [loaded EXCEPT ![w] = Loaded(raw)]
                /\ UNCHANGED sessions
           ELSE
                /\ UNCHANGED <<pc, loaded>>
                /\ sessions' = IF o.kind = ErrConflict /\ HasRoom
                               THEN sessions \cup {Row(NewId(sessions), Loaded(raw))}
                               ELSE sessions
    /\ UNCHANGED <<session, users, clients, now, links, held>>

CreateCheck(w, raw) ==
    /\ pc[w] = "idle"
    /\ \E o \in CheckOutcomes(raw, sessions, users, clients) :
        /\ last' = o
        /\ IF o.kind = "pass" THEN
                /\ HasRoom
                /\ pc' = [pc EXCEPT ![w] = "persist"]
                /\ loaded' = [loaded EXCEPT ![w] = Loaded(raw)]
           ELSE
                /\ UNCHANGED <<pc, loaded>>
    /\ UNCHANGED <<session, users, clients, sessions, now, links, held>>

\* The insert serialized with a second overlap query.
CreatePersistRechecked(w) ==
    /\ pc[w] = "persist"
    /\ IF Conflicts(sessions, loaded[w]) # {} THEN
            /\ last' = Response("create", ErrConflict, 0,
                                 (CHOOSE c \in Conflicts(sessions, loaded[w]) : TRUE).id)
            /\ UNCHANGED sessions
       ELSE
            /\ sessions' = sessions \cup {Row(NewId(sessions), loaded[w])}
            /\ last' = Response("create", "created", NewId(sessions), 0)
    /\ pc' = [pc EXCEPT ![w] = "idle"]
    /\ loaded' = [loaded EXCEPT ![w] = NoPayload]
    /\ UNCHANGED <<session, users, clients, now, links, held>>

\* Step 5: SessionRepository.create, then the 201 response with the dump.
CreatePersist(w) ==
    /\ pc[w] = "persist"
    /\ sessions' = sessions \cup {Row(NewId(sessions), loaded[w])}
    /\ last' = Response("create", "created", NewId(sessions), 0)
    /\ pc' = [pc EXCEPT ![w] = "idle"]
    /\ loaded' = [loaded EXCEPT ![w] = NoPayload]
    /\ UNCHANGED <<session, users, clients, now, links, held>>

\* --------------------------------------------------------- update_session

\* A patch names a column by giving it Val(x); Missing leaves the column out
\* of the keyword arguments; Malformed is a value the column's type refuses
\* when the row is flushed (None for a NOT NULL column, a str for Date/Time).
Patch(a, c, d, s, e, n) == RawPayload(a, c, d, s, e, n)

NoPatch == Patch(Missing, Missing, Missing, Missing, Missing, Missing)

\* The keyword arguments are the members of the request body as they come:
\* a body may also name the primary key.
WithId(patch, i) ==
    [id |-> Val(i), artist_id |-> patch.artist_id, client_id |-> patch.client_id,
     date |-> patch.date, start_time |-> patch.start_time,
     end_time |-> patch.end_time, notes |-> patch.notes]

\* The setattr loop of SessionRepository.update.
Patched(s, patch) ==
    [f \in DOMAIN s |->
        IF f \in DOMAIN patch /\ patch[f] \notin {Missing, Malformed}
        THEN patch[f].v ELSE s[f]]

\* The commit raises: a value the column's type refuses, or a primary key
\* that another row of S has.
Refused(S, id, patch) ==
    \/ \E f \in DOMAIN patch : patch[f] = Malformed
    \/ /\ "id" \in DOMAIN patch
       /\ patch.id.v # id
       /\ patch.id.v \in Ids(S)

\* update_session with create_session's overlap query in front of the commit.
UpdateSessionRechecked(id, patch) ==
    /\ IF \A s \in sessions : s.id # id THEN
            /\ last' = Response("update", ErrSession, 0, 0)
            /\ UNCHANGED sessions
       ELSE IF Refused(sessions, id, patch) THEN
            /\ last' = Response("update", "db_error", 0, 0)
            /\ UNCHANGED sessions
       ELSE IF \E s \in sessions : s.id = id
                /\ Conflicts({o \in sessions : o.id # id}, Patched(s, patch)) # {} THEN
            /\ last' = Response("update", ErrConflict, 0, 0)
            /\ UNCHANGED sessions
       ELSE
            /\ last' = Response("update", "updated", Patched([id |-> id], patch).id, 0)
            /\ sessions' = {IF s.id = id THEN Patched(s, patch) ELSE s : s \in sessions}
    /\ UNCHANGED <<session, users, clients, pc, loaded, now, links, held>>

\* update_session that inserts the row it did not find.
UpdateSessionUpsert(id, patch) ==
    /\ IF Refused(sessions, id, patch) THEN
            /\ last' = Response("update", "db_error", 0, 0)
            /\ UNCHANGED sessions
       ELSE IF \A s \in sessions : s.id # id THEN
            /\ last' = Response("update", ErrSession, 0, 0)
            /\ sessions' = sessions \cup {Patched(Row(id, NoPayload), patch)}
       ELSE
            /\ last' = Response("update", "updated", Patched([id |-> id], patch).id, 0)
            /\ sessions' = {IF s.id = id THEN Patched(s, patch) ELSE s : s \in sessions}
    /\ UNCHANGED <<session, users, clients, pc, loaded, now, links, held>>

\* SessionService.update_session and the route's mapping of None to 404.
\* A flush that raises is rolled back by DatabaseManager.get_session.
UpdateSession(id, patch) ==
    /\ IF \A s \in sessions : s.id # id THEN
            /\ last' = Response("update", ErrSession, 0, 0)
            /\ UNCHANGED sessions
       ELSE IF Refused(sessions, id, patch) THEN
            /\ last' = Response("update", "db_error", 0, 0)
            /\ UNCHANGED sessions
       ELSE
            /\ last' = Response("update", "updated", Patched([id |-> id], patch).id, 0)
            /\ sessions' = {IF s.id = id THEN Patched(s, patch) ELSE s : s \in sessions}
    /\ UNCHANGED <<session, users, clients, pc, loaded, now, links, held>>

\* --------------------------------------------------------- delete_session

\* delete_session that answers 404 for an id it does not find.
DeleteSessionStrict(id) ==
    /\ sessions' = {s \in sessions : s.id # id}
    /\ last' = IF \A s \in sessions : s.id # id
               THEN Response("delete", ErrSession, 0, 0)
               ELSE Response("delete", "no_content", 0, 0)
    /\ UNCHANGED <<session, users, clients, pc, loaded, now, links, held>>

\* SessionRepository.delete returns False for an id it does not find and the
\* route answers 204 either way.
DeleteSession(id) ==
    /\ sessions' = {s \in sessions : s.id # id}
    /\ last' = Response("delete", "no_content", 0, 0)
    /\ UNCHANGED <<session, users, clients, pc, loaded, now, links, held>>

\* ------------------------------------------------------------ the callers

\* No request is between its check and its insert.
Quiet == \A v \in Workers : pc[v] = "idle"

ValidRaw ==
    {RawPayload(Val(a), Val(c), Val(d), Val(s), Val(e), n) :
        a \in UserIds, c \in ClientIds, d \in Dates, s \in Times, e \in Times,
        n \in {Val(NULL)}}

BaseRaw == RawPayload(Val(1), Val(1), Val(1), Val(0), Val(1), Val(NULL))

InvalidRaw ==
    {[BaseRaw EXCEPT ![f] = x] : f \in RequiredFields, x \in {Missing, Malformed}}
    \cup {[BaseRaw EXCEPT !.notes = Malformed],
          [BaseRaw EXCEPT !.notes = Missing, !.end_time = Missing],
          [BaseRaw EXCEPT !.end_time = Val(0), !.artist_id = Malformed],
          RawPayload(Missing, Missing, Missing, Missing, Missing, Missing)}

\* Every pair of times for artist 1 on date 1; for the other artists and the
\* other date the slot 1..3 and its reverse.
CreateInputs ==
    {raw \in ValidRaw :
        \/ raw.artist_id = Val(1) /\ raw.date = Val(1)
        \/ <<raw.start_time.v, raw.end_time.v>> \in {<<1, 3>>, <<3, 1>>}}
    \cup InvalidRaw
    \cup {[BaseRaw EXCEPT !.notes = Missing],
          [BaseRaw EXCEPT !.notes = Val("first sitting")]}

SeqCreateCheck == \E raw \in CreateInputs : Quiet /\ CreateCheck(1, raw)
SeqCreatePersist == CreatePersist(1)
SeqDelete == \E id \in SessionIds : Quiet /\ DeleteSession(id)

\* create_session and delete_session, one call at a time.
NextCreate == SeqCreateCheck \/ SeqCreatePersist \/ SeqDelete

SpecCreate == Init /\ [][NextCreate]_vars

\* The same callers with payloads that fail one check or several at once:
\* on date 1 the slots 0..2 and 1..3 and the reversed slot 2..1, for every
\* artist and client id, and payloads that do not deserialize.
OrderInputs ==
    {raw \in ValidRaw :
        /\ raw.date = Val(1)
        /\ <<raw.start_time.v, raw.end_time.v>> \in {<<0, 2>>, <<1, 3>>, <<2, 1>>}}
    \cup {[BaseRaw EXCEPT !.date = Malformed],
          [BaseRaw EXCEPT !.end_time = Missing, !.artist_id = Val(3)],
          [BaseRaw EXCEPT !.start_time = Val(1), !.end_time = Val(0),
                          !.client_id = Malformed]}

OrderCreateCheck == \E raw \in OrderInputs : Quiet /\ CreateCheck(1, raw)

NextOrder == OrderCreateCheck \/ SeqCreatePersist \/ SeqDelete

SpecOrder == Init /\ [][NextOrder]_vars

\* create_session, update_session and delete_session, one call at a time,
\* for one date and one client; sessions start in slot 0 or 1 and end in
\* slot 0, 1 or 2.
PatchStarts == {0, 1}
PatchEnds == {0, 1, 2}

OneDayRaw ==
    {raw \in ValidRaw : /\ raw.date = Val(1) /\ raw.client_id = Val(1)
                        /\ raw.artist_id \in {Val(1), Val(2)}
                        /\ raw.start_time.v \in PatchStarts
                        /\ raw.end_time.v \in PatchEnds}
    \cup {[BaseRaw EXCEPT !.date = Malformed],
          [BaseRaw EXCEPT !.artist_id = Val(3)],
          [BaseRaw EXCEPT !.client_id = Val(2)]}

UpdateInputs ==
    {[NoPatch EXCEPT !.artist_id = Val(a)] : a \in {1, 2}}
    \cup {[NoPatch EXCEPT !.start_time = Val(t)] : t \in PatchStarts}
    \cup {[NoPatch EXCEPT !.end_time = Val(t)] : t \in PatchEnds}
    \cup {WithId(NoPatch, i) : i \in SessionIds}
    \cup {NoPatch,
          [NoPatch EXCEPT !.start_time = Val(0), !.end_time = Val(2)],
          [NoPatch EXCEPT !.start_time = Malformed]}

OneDayCreateCheck == \E raw \in OneDayRaw : Quiet /\ CreateCheck(1, raw)
SeqUpdate ==
    \E id \in SessionIds \cup {MaxId + 1}, patch \in UpdateInputs :
        Quiet /\ UpdateSession(id, patch)

Next == OneDayCreateCheck \/ SeqCreatePersist \/ SeqUpdate \/ SeqDelete

Spec == Init /\ [][Next]_vars

\* Two workers serving create_session requests for one artist and one date
\* at the same time, and delete_session.
RaceRaw ==
    {raw \in ValidRaw : raw.date = Val(1) /\ raw.client_id = Val(1)
                        /\ raw.artist_id = Val(1)}

RaceCreateCheck == \E w \in Workers, raw \in RaceRaw : CreateCheck(w, raw)
RaceCreatePersist == \E w \in Workers : CreatePersist(w)
RaceDelete == \E id \in SessionIds : DeleteSession(id)

NextRace == RaceCreateCheck \/ RaceCreatePersist \/ RaceDelete

SpecRace == Init /\ [][NextRace]_vars

\* ---------------------------------------------------------- authentication

\* What a form field or a claim of the identity token may hold; NULL is an
\* absent or empty value (both are falsy to the handlers).
Emails == {"a@b.com", "c@d.com"}
Passwords == {"pw1", "pw2"}
FlowStates == {"state1", "state2"}

\* secrets.token_urlsafe(16): 128 random bits, a value no caller types.
RandomPassword == "token_urlsafe"

\* User.set_password and User.check_password, passlib's bcrypt.  A hash is
\* the record of the secret it was made from; the salt, which makes two
\* hashes of one secret differ as strings, is left out.  A password_hash that
\* is no bcrypt string (NULL, read as str(None)) makes verify raise.
BcryptHash(password) == [scheme |-> "bcrypt", secret |-> password]

VerifyRaises(hash) == hash.scheme # "bcrypt"

BcryptVerify(password, hash) == hash.scheme = "bcrypt" /\ hash.secret = password

\* query(User).filter_by(email=email): the rows first() chooses from.
UsersByEmail(U, email) == {u \in U : u.email = email}

\* The claims of a verified identity token (user_info).
UserInfo(email, name, picture) ==
    [email |-> email, name |-> name, picture |-> picture]

\* An identity token as the provider hands it out: verify_oauth2_token
\* either raises or returns the claims.
IdToken(valid, info) == [valid |-> valid, claims |-> info]

\* The id_token member of a provider answer that has none.
NoIdToken == [valid |-> FALSE]

\* The dictionary get_credentials_from_callback returns.
CredentialBundle(tok) == [token |-> "access", id_token |-> tok]

\* flow.fetch_token raised (network, provider error, bad code).
ExchangeRaises == [raises |-> "fetch_token"]

\* A token whose subject is the display name.
CreateJwtTokenForName(user_info) ==
    [sub |-> user_info.name, name |-> user_info.name,
     email |-> user_info.email, picture |-> user_info.picture]

\* GoogleAuthService.create_jwt_token: the payload that is signed (the
\* expiry, one day after the login, is left out).
CreateJwtToken(user_info) ==
    [sub |-> user_info.email, name |-> user_info.name,
     email |-> user_info.email, picture |-> user_info.picture]

\* session["user"] as the callback and as login_local write it.
Indicator(email, name, picture) ==
    [email |-> email, name |-> name, picture |-> picture]

\* The bodies and redirects of the authentication routes.
ErrIdToken == "Error: ID token not found in credentials"
ErrAuth == "Authentication error"
MsgRequired == "Email and password are required."
MsgInvalid == "Invalid email or password."
MsgAllRequired == "All fields are required."
MsgRegistered == "Email already registered."

\* GET /auth/login/google: the provider's state value is put in the session
\* and the browser is sent to the provider.
LoginGoogle(state) ==
    /\ session' = [session EXCEPT !.flow_state = Val(state)]
    /\ last' = Response("login_google", "redirect_provider", 0, 0)
    /\ UNCHANGED <<users, clients, sessions, pc, loaded, now, links, held>>

\* A reconciliation that inserts a row for every login.
ReconciledByInsert(U, user_info) ==
    {U \cup {UserRow(NewId(U), user_info.email,
                     IF user_info.name # NULL THEN user_info.name
                     ELSE user_info.email,
                     BcryptHash(RandomPassword))}}

\* A reconciliation that gives the user it finds a fresh random password.
ReconciledWithNewPassword(U, user_info) ==
    IF UsersByEmail(U, user_info.email) = {} THEN
        {U \cup {UserRow(NewId(U), user_info.email,
                         IF user_info.name # NULL THEN user_info.name
                         ELSE user_info.email,
                         BcryptHash(RandomPassword))}}
    ELSE
        {{IF u = user
          THEN [u EXCEPT !.name = IF user_info.name # NULL THEN user_info.name
                                 ELSE u.name,
                         !.password_hash = BcryptHash(RandomPassword)]
          ELSE u : u \in U} :
            user \in UsersByEmail(U, user_info.email)}

\* Lines 182-199 of the callback: the users table after the identity was
\* reconciled with it.
Reconciled(U, user_info) ==
    IF UsersByEmail(U, user_info.email) = {} THEN
        {U \cup {UserRow(NewId(U), user_info.email,
                         IF user_info.name # NULL THEN user_info.name
                         ELSE user_info.email,
                         BcryptHash(RandomPassword))}}
    ELSE
        {{IF u = user /\ user_info.name # NULL /\ u.name # user_info.name
          THEN [u EXCEPT !.name = user_info.name] ELSE u : u \in U} :
            user \in UsersByEmail(U, user_info.email)}

\* GET /auth/login/google/callback with the outcome ex of the code exchange.
\* Every exception is caught and answered 400; an insert with a NULL email
\* is refused by the NOT NULL column, after the database session was opened
\* and on a path that does not close it.
Callback(ex) ==
    /\ IF ex = ExchangeRaises THEN
            /\ last' = Response("callback", ErrAuth, 0, 0)
            /\ UNCHANGED <<session, users, held>>
       ELSE IF ex.id_token = NoIdToken THEN
            /\ last' = Response("callback", ErrIdToken, 0, 0)
            /\ session' = [session EXCEPT !.credentials = Val(ex)]
            /\ UNCHANGED <<users, held>>
       ELSE IF ~ex.id_token.valid THEN
            /\ last' = Response("callback", ErrAuth, 0, 0)
            /\ session' = [session EXCEPT !.credentials = Val(ex)]
            /\ UNCHANGED <<users, held>>
       ELSE IF ex.id_token.claims.email = NULL THEN
            /\ last' = Response("callback", ErrAuth, 0, 0)
            /\ session' = [session EXCEPT !.credentials = Val(ex)]
            /\ held' = held \cup {"callback"}
            /\ UNCHANGED users
       ELSE
            /\ last' = Response("callback", "redirect_dashboard", 0, 0)
            /\ users' \in Reconciled(users, ex.id_token.claims)
            /\ session' = [session EXCEPT
                    !.credentials = Val(ex),
                    !.user = Val(Indicator(ex.id_token.claims.email,
                                           ex.id_token.claims.name,
                                           ex.id_token.claims.picture)),
                    !.jwt_token = Val(CreateJwtToken(ex.id_token.claims))]
            /\ UNCHANGED held
    /\ UNCHANGED <<clients, sessions, pc, loaded, now, links>>

\* A dashboard that is rendered for every caller.
DashboardForAll ==
    /\ last' = Response("dashboard", "served", 0, 0)
    /\ UNCHANGED <<session, users, clients, sessions, pc, loaded,
                   now, links, held>>

\* GET /auth/dashboard.
Dashboard ==
    /\ last' = IF session.user = Missing
               THEN Response("dashboard", "redirect_login", 0, 0)
               ELSE Response("dashboard", "served", 0, 0)
    /\ UNCHANGED <<session, users, clients, sessions, pc, loaded,
                   now, links, held>>

\* get_current_user_id of routes/clients.py.
CurrentUserId(sess) == IF sess.user = Missing THEN NULL ELSE sess.user.v.email

\* A page of routes/clients.py behind require_authentication.
ClientsPage ==
    /\ last' = IF CurrentUserId(session) = NULL
               THEN Response("clients", "redirect_login", 0, 0)
               ELSE Response("clients", "served", 0, 0)
    /\ UNCHANGED <<session, users, clients, sessions, pc, loaded,
                   now, links, held>>

\* A logout that pops the "user" key only.
LogoutPopsUser ==
    /\ session' = [session EXCEPT !.user = Missing]
    /\ last' = Response("logout", "redirect_login", 0, 0)
    /\ UNCHANGED <<users, clients, sessions, pc, loaded, now, links, held>>

\* GET /auth/logout: session.clear().
Logout ==
    /\ session' = EmptySession
    /\ last' = Response("logout", "redirect_login", 0, 0)
    /\ UNCHANGED <<users, clients, sessions, pc, loaded, now, links, held>>

\* A local login that accepts any password for an email it finds.
LoginLocalByEmail(email, password) ==
    /\ IF email = NULL \/ password = NULL THEN
            /\ last' = Response("login_local", MsgRequired, 0, 0)
            /\ UNCHANGED session
       ELSE IF UsersByEmail(users, email) = {} THEN
            /\ last' = Response("login_local", MsgInvalid, 0, 0)
            /\ UNCHANGED session
       ELSE \E user \in UsersByEmail(users, email) :
            /\ last' = Response("login_local", "redirect_dashboard", 0, 0)
            /\ session' = [session EXCEPT
                    !.user = Val(Indicator(user.email, user.name, NULL))]
    /\ UNCHANGED <<users, clients, sessions, pc, loaded, now, links, held>>

\* POST /auth/login/local.  check_password has no handler around it: a
\* password_hash that is no hash ends the request with a 500, past both
\* calls of close().
LoginLocal(email, password) ==
    /\ IF email = NULL \/ password = NULL THEN
            /\ last' = Response("login_local", MsgRequired, 0, 0)
            /\ UNCHANGED <<session, held>>
       ELSE IF UsersByEmail(users, email) = {} THEN
            /\ last' = Response("login_local", MsgInvalid, 0, 0)
            /\ UNCHANGED <<session, held>>
       ELSE \E user \in UsersByEmail(users, email) :
            IF VerifyRaises(user.password_hash) THEN
                /\ last' = Response("login_local", "error_500", 0, 0)
                /\ held' = held \cup {"login_local"}
                /\ UNCHANGED session
            ELSE IF BcryptVerify(password, user.password_hash) THEN
                /\ last' = Response("login_local", "redirect_dashboard", 0, 0)
                /\ session' = [session EXCEPT
                        !.user = Val(Indicator(user.email, user.name, NULL))]
                /\ UNCHANGED held
            ELSE
                /\ last' = Response("login_local", MsgInvalid, 0, 0)
                /\ UNCHANGED <<session, held>>
    /\ UNCHANGED <<users, clients, sessions, pc, loaded, now, links>>

\* A registration that rewrites the name and the password of the user it
\* finds.
RegisterOverwrites(name, email, password) ==
    /\ IF name = NULL \/ email = NULL \/ password = NULL THEN
            /\ last' = Response("register", MsgAllRequired, 0, 0)
            /\ UNCHANGED users
       ELSE IF UsersByEmail(users, email) # {} THEN
            /\ last' = Response("register", MsgRegistered, 0, 0)
            /\ users' = {IF u.email = email
                         THEN UserRow(u.id, email, name, BcryptHash(password))
                         ELSE u : u \in users}
       ELSE
            /\ last' = Response("register", "redirect_login", 0, 0)
            /\ users' = users \cup
                    {UserRow(NewId(users), email, name, BcryptHash(password))}
    /\ UNCHANGED <<session, clients, sessions, pc, loaded, now, links, held>>

\* POST /auth/register.
Register(name, email, password) ==
    /\ IF name = NULL \/ email = NULL \/ password = NULL THEN
            /\ last' = Response("register", MsgAllRequired, 0, 0)
            /\ UNCHANGED users
       ELSE IF UsersByEmail(users, email) # {} THEN
            /\ last' = Response("register", MsgRegistered, 0, 0)
            /\ UNCHANGED users
       ELSE
            /\ last' = Response("register", "redirect_login", 0, 0)
            /\ users' = users \cup
                    {UserRow(NewId(users), email, name, BcryptHash(password))}
    /\ UNCHANGED <<session, clients, sessions, pc, loaded, now, links, held>>

\* The identities the provider vouches for, and the outcomes of a code
\* exchange: it raises, or returns a bundle without identity token, with one
\* that does not verify, or with one that verifies.
ProviderClaims ==
    {UserInfo("a@b.com", "Ann", "pic"), UserInfo("a@b.com", "Bea", "pic"),
     UserInfo("a@b.com", NULL, NULL), UserInfo("c@d.com", "Cy", NULL),
     UserInfo(NULL, "Ann", "pic")}

Exchanges ==
    {ExchangeRaises, CredentialBundle(NoIdToken),
     CredentialBundle(IdToken(FALSE, UserInfo("a@b.com", "Ann", "pic")))}
    \cup {CredentialBundle(IdToken(TRUE, c)) : c \in ProviderClaims}

\* One browser going through the provider flow, with one account that is
\* registered locally.
ProviderLoginGoogle == \E state \in FlowStates : LoginGoogle(state)
ProviderCallback == \E ex \in Exchanges : Callback(ex)
ProviderRegister == Register("Ann", "a@b.com", "pw1")

NextProvider ==
    \/ ProviderLoginGoogle
    \/ ProviderCallback
    \/ ProviderRegister
    \/ Dashboard
    \/ ClientsPage
    \/ Logout

SpecProvider == Init /\ [][NextProvider]_vars

\* One browser registering accounts and logging in with email and password.
LoginEmails == Emails \cup {"artist@example.com", NULL}

LocalRegister ==
    \E name \in {"Ann", "Bea", NULL}, email \in Emails \cup {NULL},
       password \in Passwords \cup {NULL} : Register(name, email, password)
LocalLogin ==
    \E email \in LoginEmails, password \in Passwords \cup {NULL} :
        LoginLocal(email, password)

NextLocal ==
    \/ LocalRegister
    \/ LocalLogin
    \/ Dashboard
    \/ ClientsPage
    \/ Logout

SpecLocal == Init /\ [][NextLocal]_vars

\* ----------------------------------------------------------- password reset

\* The clock stops at MaxNow hours.
MaxNow == 2
\* No more than MaxLinks reset links are handed out.
MaxLinks == 2
\* max_age=3600 of serializer.loads, in hours.
MaxAge == 1

\* app.config["SECRET_KEY"], and a key that somebody else signs with.
SecretKey == "SECRET_KEY"
OtherKey == "guessed"

\* The signature itsdangerous puts on a payload and its timestamp: only the
\* same key, payload and timestamp give the same signature.
Sign(key, email, ts) == [key |-> key, email |-> email, ts |-> ts]

\* serializer.dumps({"email": email}, salt="password-reset-salt") at time ts.
Dumps(email, ts) ==
    [email |-> email, ts |-> ts, sig |-> Sign(SecretKey, email, ts)]

\* A loads that does not look at the age of the token.
LoadsWithoutAge(token, at) ==
    IF token.sig # Sign(SecretKey, token.email, token.ts) THEN "BadSignature"
    ELSE "ok"

\* serializer.loads(token, salt=..., max_age=3600) at time `at`: the
\* signature is verified first, then the age is compared with max_age.
Loads(token, at) ==
    IF token.sig # Sign(SecretKey, token.email, token.ts) THEN "BadSignature"
    ELSE IF at - token.ts > MaxAge THEN "SignatureExpired"
    ELSE "ok"

\* The flashes and redirects of the two reset routes.
MsgResetLink == "Password reset link (for testing)"
MsgIfRegistered == "If this email is registered, you will receive a password reset link."
MsgExpired == "The password reset link has expired."
MsgInvalidToken == "Invalid password reset token."
MsgMismatch == "Passwords do not match."
MsgUpdated == "Your password has been updated. Please log in."
MsgUserNotFound == "User not found."
MsgDbError == "A database error occurred. Please try again later."

\* POST /auth/request_password_reset: a token for the email of a user, the
\* same page without one for any other email.
RequestPasswordReset(email) ==
    /\ IF UsersByEmail(users, email) # {} THEN
            /\ links' = links \cup {Dumps(email, now)}
            /\ last' = Response("request_password_reset", MsgResetLink, 0, 0)
       ELSE
            /\ last' = Response("request_password_reset", MsgIfRegistered, 0, 0)
            /\ UNCHANGED links
    /\ UNCHANGED <<session, users, clients, sessions, pc, loaded, now, held>>

\* A reset that gives every user the new password.
ResetPasswordForAll(post, token, new_password, confirm_password) ==
    /\ IF Loads(token, now) = "BadSignature" THEN
            /\ last' = Response("reset_password", MsgInvalidToken, 0, 0)
            /\ UNCHANGED users
       ELSE IF Loads(token, now) = "SignatureExpired" THEN
            /\ last' = Response("reset_password", MsgExpired, 0, 0)
            /\ UNCHANGED users
       ELSE IF ~post THEN
            /\ last' = Response("reset_password", "form", 0, 0)
            /\ UNCHANGED users
       ELSE IF new_password = NULL \/ confirm_password = NULL THEN
            /\ last' = Response("reset_password", MsgAllRequired, 0, 0)
            /\ UNCHANGED users
       ELSE IF new_password # confirm_password THEN
            /\ last' = Response("reset_password", MsgMismatch, 0, 0)
            /\ UNCHANGED users
       ELSE IF UsersByEmail(users, token.email) = {} THEN
            /\ last' = Response("reset_password", MsgUserNotFound, 0, 0)
            /\ UNCHANGED users
       ELSE
            /\ last' = Response("reset_password", MsgUpdated, 0, 0)
            /\ users' = {[u EXCEPT !.password_hash = BcryptHash(new_password)] :
                            u \in users}
    /\ UNCHANGED <<session, clients, sessions, pc, loaded, now, links, held>>

\* A reset that also logs the caller in.
ResetPasswordLogsIn(post, token, new_password, confirm_password) ==
    /\ IF Loads(token, now) = "BadSignature" THEN
            /\ last' = Response("reset_password", MsgInvalidToken, 0, 0)
            /\ UNCHANGED <<users, session>>
       ELSE IF Loads(token, now) = "SignatureExpired" THEN
            /\ last' = Response("reset_password", MsgExpired, 0, 0)
            /\ UNCHANGED <<users, session>>
       ELSE IF ~post THEN
            /\ last' = Response("reset_password", "form", 0, 0)
            /\ UNCHANGED <<users, session>>
       ELSE IF new_password = NULL \/ confirm_password = NULL THEN
            /\ last' = Response("reset_password", MsgAllRequired, 0, 0)
            /\ UNCHANGED <<users, session>>
       ELSE IF new_password # confirm_password THEN
            /\ last' = Response("reset_password", MsgMismatch, 0, 0)
            /\ UNCHANGED <<users, session>>
       ELSE IF UsersByEmail(users, token.email) = {} THEN
            /\ last' = Response("reset_password", MsgUserNotFound, 0, 0)
            /\ UNCHANGED <<users, session>>
       ELSE \E user \in UsersByEmail(users, token.email) :
            /\ last' = Response("reset_password", MsgUpdated, 0, 0)
            /\ users' = {IF u = user
                         THEN [u EXCEPT !.password_hash = BcryptHash(new_password)]
                         ELSE u : u \in users}
            /\ session' = [session EXCEPT
                    !.user = Val(Indicator(user.email, user.name, NULL))]
    /\ UNCHANGED <<clients, sessions, pc, loaded, now, links, held>>

\* GET or POST /auth/reset_password/<token>.  The token is loaded before the
\* method is looked at; a token stays good for every request made within its
\* hour.
ResetPassword(post, token, new_password, confirm_password) ==
    /\ IF Loads(token, now) = "BadSignature" THEN
            /\ last' = Response("reset_password", MsgInvalidToken, 0, 0)
            /\ UNCHANGED users
       ELSE IF Loads(token, now) = "SignatureExpired" THEN
            /\ last' = Response("reset_password", MsgExpired, 0, 0)
            /\ UNCHANGED users
       ELSE IF ~post THEN
            /\ last' = Response("reset_password", "form", 0, 0)
            /\ UNCHANGED users
       ELSE IF new_password = NULL \/ confirm_password = NULL THEN
            /\ last' = Response("reset_password", MsgAllRequired, 0, 0)
            /\ UNCHANGED users
       ELSE IF new_password # confirm_password THEN
            /\ last' = Response("reset_password", MsgMismatch, 0, 0)
            /\ UNCHANGED users
       ELSE IF UsersByEmail(users, token.email) = {} THEN
            /\ last' = Response("reset_password", MsgUserNotFound, 0, 0)
            /\ UNCHANGED users
       ELSE \E user \in UsersByEmail(users, token.email) :
            /\ last' = Response("reset_password", MsgUpdated, 0, 0)
            /\ users' = {IF u = user
                         THEN [u EXCEPT !.password_hash = BcryptHash(new_password)]
                         ELSE u : u \in users}
    /\ UNCHANGED <<session, clients, sessions, pc, loaded, now, links, held>>

\* An hour passes.
Tick ==
    /\ now < MaxNow
    /\ now' = now + 1
    /\ UNCHANGED <<session, users, clients, sessions, pc, loaded, last, links, held>>

\* The tokens a caller may put in the URL: the links that were handed out,
\* a link with its email replaced, and tokens signed with another key.
ResetEmails == Emails

TamperedTokens ==
    {[t EXCEPT !.email = e] : t \in links, e \in ResetEmails} \ links

ForeignTokens ==
    {[email |-> e, ts |-> now, sig |-> Sign(OtherKey, e, now)] : e \in ResetEmails}
    \cup {[t EXCEPT !.sig = Sign(OtherKey, t.email, t.ts)] : t \in links}

PresentedTokens == links \cup TamperedTokens \cup ForeignTokens

\* The requests made with a token: the GET of the form, and POSTs with the
\* password given twice, given two ways and given once.
ResetForm(post, password, confirm_password) ==
    [post |-> post, password |-> password, confirm_password |-> confirm_password]

ResetForms ==
    {ResetForm(FALSE, NULL, NULL), ResetForm(TRUE, "pw1", NULL),
     ResetForm(TRUE, NULL, "pw1"), ResetForm(TRUE, "pw1", "pw2")}
    \cup {ResetForm(TRUE, p, p) : p \in Passwords}

\* One browser and the account of a@b.com, which registers locally or comes
\* in through the provider: registration, reset request, reset, both logins,
\* logout.  Nobody has the address c@d.com.
ResetRegister == Register("Ann", "a@b.com", "pw1")
ResetRequest ==
    \E email \in ResetEmails \cup {NULL} :
        /\ Cardinality(links \cup {Dumps(email, now)}) <= MaxLinks
        /\ RequestPasswordReset(email)
ResetSubmit ==
    \E token \in PresentedTokens, form \in ResetForms :
        ResetPassword(form.post, token, form.password, form.confirm_password)
ResetLogin ==
    \E email \in ResetEmails, password \in Passwords : LoginLocal(email, password)
ResetCallback ==
    \E ex \in {ExchangeRaises, CredentialBundle(NoIdToken),
               CredentialBundle(IdToken(TRUE, UserInfo("a@b.com", "Ann", "pic")))} :
        Callback(ex)

NextReset ==
    \/ ResetRegister
    \/ ResetRequest
    \/ ResetSubmit
    \/ ResetLogin
    \/ ResetCallback
    \/ Logout
    \/ Tick

SpecReset == Init /\ [][NextReset]_vars

\* ------------------------------------------------- concurrent first logins

\* register and callback look the email up and insert the user they did not
\* find in two statements of one database session, with nothing that keeps
\* another request from committing in between.  Between the two a worker is
\* at "register_insert" or "callback_insert" and `loaded` holds what it is
\* about to insert.
RegisterForm(name, email, password) ==
    [name |-> name, email |-> email, password |-> password]

\* The unique index of users.email (and its NOT NULL) refuses the row.
EmailRefused(U, email) == email = NULL \/ UsersByEmail(U, email) # {}

\* Lines 73-96 of register: the form is validated and the email looked up.
RegisterLookup(w, name, email, password) ==
    /\ pc[w] = "idle"
    /\ IF name = NULL \/ email = NULL \/ password = NULL THEN
            /\ last' = Response("register", MsgAllRequired, 0, 0)
            /\ UNCHANGED <<pc, loaded>>
       ELSE IF UsersByEmail(users, email) # {} THEN
            /\ last' = Response("register", MsgRegistered, 0, 0)
            /\ UNCHANGED <<pc, loaded>>
       ELSE
            /\ last' = Response("register", "pass", 0, 0)
            /\ pc' = [pc EXCEPT ![w] = "register_insert"]
            /\ loaded' = [loaded EXCEPT ![w] = RegisterForm(name, email, password)]
    /\ UNCHANGED <<session, users, clients, sessions, now, links, held>>

\* An insert into a table without the unique index.
RegisterInsertUnchecked(w) ==
    /\ pc[w] = "register_insert"
    /\ users' = users \cup
            {UserRow(NewId(users), loaded[w].email, loaded[w].name,
                     BcryptHash(loaded[w].password))}
    /\ last' = Response("register", "redirect_login", 0, 0)
    /\ UNCHANGED held
    /\ pc' = [pc EXCEPT ![w] = "idle"]
    /\ loaded' = [loaded EXCEPT ![w] = NoPayload]
    /\ UNCHANGED <<session, clients, sessions, now, links>>

\* Lines 97-110 of register: add, commit, close; an exception of the commit
\* is answered with the flash of the except branch, which closes nothing.
RegisterInsert(w) ==
    /\ pc[w] = "register_insert"
    /\ IF EmailRefused(users, loaded[w].email) THEN
            /\ last' = Response("register", MsgDbError, 0, 0)
            /\ held' = held \cup {"register"}
            /\ UNCHANGED users
       ELSE
            /\ users' = users \cup
                    {UserRow(NewId(users), loaded[w].email, loaded[w].name,
                             BcryptHash(loaded[w].password))}
            /\ last' = Response("register", "redirect_login", 0, 0)
            /\ UNCHANGED held
    /\ pc' = [pc EXCEPT ![w] = "idle"]
    /\ loaded' = [loaded EXCEPT ![w] = NoPayload]
    /\ UNCHANGED <<session, clients, sessions, now, links>>

\* Lines 146-185 of callback, and lines 194-211 when the lookup finds the
\* user.
CallbackLookup(w, ex) ==
    /\ pc[w] = "idle"
    /\ IF ex = ExchangeRaises THEN
            /\ last' = Response("callback", ErrAuth, 0, 0)
            /\ UNCHANGED <<session, users, pc, loaded>>
       ELSE IF ex.id_token = NoIdToken THEN
            /\ last' = Response("callback", ErrIdToken, 0, 0)
            /\ session' = [session EXCEPT !.credentials = Val(ex)]
            /\ UNCHANGED <<users, pc, loaded>>
       ELSE IF ~ex.id_token.valid THEN
            /\ last' = Response("callback", ErrAuth, 0, 0)
            /\ session' = [session EXCEPT !.credentials = Val(ex)]
            /\ UNCHANGED <<users, pc, loaded>>
       ELSE IF UsersByEmail(users, ex.id_token.claims.email) = {} THEN
            /\ last' = Response("callback", "pass", 0, 0)
            /\ session' = [session EXCEPT !.credentials = Val(ex)]
            /\ pc' = [pc EXCEPT ![w] = "callback_insert"]
            /\ loaded' = [loaded EXCEPT ![w] = ex.id_token.claims]
            /\ UNCHANGED users
       ELSE
            /\ last' = Response("callback", "redirect_dashboard", 0, 0)
            /\ users' \in Reconciled(users, ex.id_token.claims)
            /\ session' = [session EXCEPT
                    !.credentials = Val(ex),
                    !.user = Val(Indicator(ex.id_token.claims.email,
                                           ex.id_token.claims.name,
                                           ex.id_token.claims.picture)),
                    !.jwt_token = Val(CreateJwtToken(ex.id_token.claims))]
            /\ UNCHANGED <<pc, loaded>>
    /\ UNCHANGED <<clients, sessions, now, links, held>>

\* Lines 186-211 of callback when the lookup found nobody: add, commit,
\* close, then the session keys; an exception of the commit is answered 400
\* by the except branch, which closes nothing.
CallbackInsert(w) ==
    /\ pc[w] = "callback_insert"
    /\ IF EmailRefused(users, loaded[w].email) THEN
            /\ last' = Response("callback", ErrAuth, 0, 0)
            /\ held' = held \cup {"callback"}
            /\ UNCHANGED <<users, session>>
       ELSE
            /\ users' = users \cup
                    {UserRow(NewId(users), loaded[w].email,
                             IF loaded[w].name # NULL THEN loaded[w].name
                             ELSE loaded[w].email,
                             BcryptHash(RandomPassword))}
            /\ last' = Response("callback", "redirect_dashboard", 0, 0)
            /\ session' = [session EXCEPT
                    !.user = Val(Indicator(loaded[w].email, loaded[w].name,
                                           loaded[w].picture)),
                    !.jwt_token = Val(CreateJwtToken(loaded[w]))]
            /\ UNCHANGED held
    /\ pc' = [pc EXCEPT ![w] = "idle"]
    /\ loaded' = [loaded EXCEPT ![w] = NoPayload]
    /\ UNCHANGED <<clients, sessions, now, links>>

\* Two workers serving registrations and provider callbacks for the same
\* two addresses.
SignupForms ==
    {RegisterForm("Ann", "a@b.com", "pw1"), RegisterForm("Bea", "a@b.com", "pw2"),
     RegisterForm("Cy", "c@d.com", "pw1"), RegisterForm("Ann", NULL, "pw1")}

SignupExchanges ==
    {ExchangeRaises,
     CredentialBundle(IdToken(TRUE, UserInfo("a@b.com", "Ann G", "pic"))),
     CredentialBundle(IdToken(TRUE, UserInfo("c@d.com", NULL, NULL)))}

SignupRegisterLookup ==
    \E w \in Workers, form \in SignupForms :
        RegisterLookup(w, form.name, form.email, form.password)
SignupRegisterInsert == \E w \in Workers : RegisterInsert(w)
SignupCallbackLookup == \E w \in Workers, ex \in SignupExchanges : CallbackLookup(w, ex)
SignupCallbackInsert == \E w \in Workers : CallbackInsert(w)

NextSignup ==
    \/ SignupRegisterLookup
    \/ SignupRegisterInsert
    \/ SignupCallbackLookup
    \/ SignupCallbackInsert

SpecSignup == Init /\ [][NextSignup]_vars

\* ---------------------------------------------------------- client deletion

MsgLoginFirst == "Por favor, faça login para acessar esta página."
MsgNoUser == "Usuário não encontrado."
MsgClientDeleted == "Cliente excluído com sucesso!"
MsgClientNotFound == "Cliente não encontrado."

\* ClientRepository.get_by_id_and_user.
ClientsByIdAndUser(C, id, user_id) == {c \in C : c.id = id /\ c.user_id = user_id}

\* session.delete(client) with the relationship sessions_as_client, which
\* has no delete cascade: the flush first sets client_id of the client's
\* sessions to NULL, which the NOT NULL column refuses.
NullifyRefused(S, id) == \E s \in S : s.client_id = id

\* POST /clients/<client_id>/delete: require_authentication, the user of
\* the session's email, then ClientRepository.delete_by_user, which answers
\* False both for a client it does not find and for a delete that raised
\* and was rolled back.
DeleteClient(client_id) ==
    /\ IF CurrentUserId(session) = NULL THEN
            /\ last' = Response("delete_client", MsgLoginFirst, 0, 0)
            /\ UNCHANGED clients
       ELSE IF UsersByEmail(users, CurrentUserId(session)) = {} THEN
            /\ last' = Response("delete_client", MsgNoUser, 0, 0)
            /\ UNCHANGED clients
       ELSE \E user \in UsersByEmail(users, CurrentUserId(session)) :
            IF ClientsByIdAndUser(clients, client_id, user.id) = {}
               \/ NullifyRefused(sessions, client_id) THEN
                /\ last' = Response("delete_client", MsgClientNotFound, 0, 0)
                /\ UNCHANGED clients
            ELSE
                /\ last' = Response("delete_client", MsgClientDeleted, 0, 0)
                /\ clients' = clients \ ClientsByIdAndUser(clients, client_id, user.id)
    /\ UNCHANGED <<session, users, sessions, pc, loaded, now, links, held>>

\* One artist who logs in through the provider, books, rebooks and cancels
\* sessions and deletes clients, one call at a time.
RefsRaw ==
    {RawPayload(Val(a), Val(c), Val(1), Val(0), Val(1), Val(NULL)) :
        a \in UserIds, c \in ClientIds}

RefsPatches ==
    {[NoPatch EXCEPT !.artist_id = Val(a)] : a \in UserIds}
    \cup {[NoPatch EXCEPT !.client_id = Val(c)] : c \in ClientIds}

RefsLogin ==
    /\ Quiet
    /\ Callback(CredentialBundle(IdToken(TRUE,
                    UserInfo("artist@example.com", "Artist", NULL))))
RefsCreateCheck == \E raw \in RefsRaw : Quiet /\ CreateCheck(1, raw)
RefsCreatePersist == CreatePersist(1)
RefsUpdate ==
    \E id \in SessionIds, patch \in RefsPatches : Quiet /\ UpdateSession(id, patch)
RefsDelete == \E id \in SessionIds : Quiet /\ DeleteSession(id)
RefsDeleteClient == \E client_id \in ClientIds : Quiet /\ DeleteClient(client_id)

NextRefs ==
    \/ RefsLogin
    \/ RefsCreateCheck
    \/ RefsCreatePersist
    \/ RefsUpdate
    \/ RefsDelete
    \/ RefsDeleteClient
    \/ Logout

SpecRefs == Init /\ [][NextRefs]_vars

\* ------------------------------------------------------------- properties

\* Two rows of one artist and one date whose half-open intervals
\* [start_time, end_time) share a time of day.
SameDay(a, b) == a.artist_id = b.artist_id /\ a.date = b.date

Intersect(a, b) ==
    /\ SameDay(a, b)
    /\ \E t \in Times : /\ a.start_time <= t /\ t < a.end_time
                        /\ b.start_time <= t /\ t < b.end_time

Touch(a, b) ==
    /\ SameDay(a, b)
    /\ a.end_time = b.start_time \/ b.end_time = a.start_time

\* The payloads that deserialize, and among them those whose end is after
\* their start and those whose end is not.
WellFormed(raw) ==
    /\ \A f \in RequiredFields : raw[f] \notin {Missing, Malformed}
    /\ raw.notes # Malformed

WellFormedInputs == {raw \in CreateInputs : WellFormed(raw)}

ForwardInputs == {raw \in WellFormedInputs : raw.end_time.v > raw.start_time.v}

BackwardInputs == {raw \in WellFormedInputs : raw.end_time.v <= raw.start_time.v}

\* The artist and the client of the payload exist.
Resolves(raw) == raw.artist_id.v \in Ids(users) /\ raw.client_id.v \in Ids(clients)

Proposed(raw) ==
    [artist_id |-> raw.artist_id.v, date |-> raw.date.v,
     start_time |-> raw.start_time.v, end_time |-> raw.end_time.v]

CreateErrors == {"field_errors", ErrTimeRange, ErrArtist, ErrClient, ErrConflict}

\* C1: with create_session and delete_session called one at a time (and no
\* update_session), no two persisted sessions of the same artist and date
\* have overlapping [start_time, end_time) intervals.
C1_NoOverlap ==
    \A a \in sessions : \A b \in sessions : a # b => ~Intersect(a, b)

C1_Witness ==
    \E a \in sessions : \E b \in sessions :
        a # b /\ SameDay(a, b) /\ a.end_time < b.start_time

\* C2: the insert of create_session is not serialized with its overlap
\* query.  A request that passed the query inserts its row and is answered
\* 201 even when, by then, another request has committed a row that overlaps
\* it; so with two concurrent requests both overlapping rows are persisted.
C2_InsertAfterStaleCheck ==
    [][\A w \in Workers :
        (/\ pc[w] = "persist"
         /\ pc'[w] = "idle"
         /\ \E s \in sessions : Intersect(s, loaded[w]))
        => /\ last'.kind = "created"
           /\ \E n \in sessions' \ sessions :
                /\ n.id = last'.id
                /\ \E s \in sessions : Intersect(s, n)]_vars

C2_Witness ==
    /\ last.kind = "created"
    /\ \E a \in sessions : \E b \in sessions :
        a # b /\ b.id = last.id /\ Intersect(a, b)

\* C3: a create_session that passes steps 1-3 (it deserializes, its end is
\* after its start, its artist and client exist) and whose interval overlaps
\* a persisted session of the same artist and date is answered with the
\* conflict error, whose conflict_session_id is the id of a persisted session
\* that overlaps it (the id of A when A is the only one).
C3_ConflictNamesOverlap ==
    [][last'.op = "create" => \A raw \in ForwardInputs :
        (/\ Resolves(raw)
         /\ \E s \in sessions : Intersect(s, Proposed(raw))
         /\ CreateCheck(1, raw))
        => /\ last'.kind = ErrConflict
           /\ \E s \in sessions : /\ s.id = last'.conflict_session_id
                                  /\ Intersect(s, Proposed(raw))]_vars

C3_Witness ==
    /\ last.op = "create"
    /\ last.kind = ErrConflict
    /\ \E a \in sessions : sessions = {a} /\ a.id = last.conflict_session_id

\* C4: a create_session that passes steps 1-3, touches a persisted session
\* of the same artist and date (its start is that session's end, or its end
\* that session's start) and overlaps none passes the conflict check, and its
\* insert adds the row.
C4_TouchingAccepted ==
    [][/\ last'.op = "create" => \A raw \in ForwardInputs :
            (/\ Resolves(raw)
             /\ \E s \in sessions : Touch(s, Proposed(raw))
             /\ \A s \in sessions : ~Intersect(s, Proposed(raw))
             /\ CreateCheck(1, raw))
            => /\ last'.kind = "pass"
               /\ pc'[1] = "persist"
               /\ loaded'[1] = Loaded(raw)
       /\ (pc[1] = "persist" /\ pc'[1] = "idle")
            => /\ last'.kind = "created"
               /\ sessions' = sessions \cup {Row(last'.id, loaded[1])}
               /\ last'.id \notin Ids(sessions)]_vars

C4_Witness ==
    /\ last.kind = "created"
    /\ \E a \in sessions : \E b \in sessions :
        a # b /\ b.id = last.id /\ Touch(a, b) /\ ~Intersect(a, b)

\* C5: every create_session payload that deserializes and has
\* end_time <= start_time is answered 'End time must be after start time.',
\* whatever its date, artist and client and whatever sessions exist.
C5_EndNotAfterStartRejected ==
    [][last'.op = "create" => \A raw \in BackwardInputs :
        CreateCheck(1, raw) => last'.kind = ErrTimeRange]_vars

C5_Witness ==
    /\ last.op = "create"
    /\ last.kind = ErrTimeRange
    /\ sessions # {}

\* C6: a create_session that passes steps 1-2 and whose artist id is no
\* user is answered 'Artist not found.'; one whose artist exists and whose
\* client id is no client is answered 'Client not found.'.
C6_NotFoundNamesReference ==
    [][last'.op = "create" => \A raw \in ForwardInputs :
        (~Resolves(raw) /\ CreateCheck(1, raw))
        => last'.kind = IF raw.artist_id.v \notin Ids(users) THEN ErrArtist
                        ELSE ErrClient]_vars

C6_Witness ==
    /\ last.op = "create"
    /\ last.kind = ErrClient
    /\ Cardinality(sessions) = 1

\* C7: a create_session that ends in an error (field errors, time range,
\* not found or conflict) leaves table sessions as it was and leaves no
\* insert pending.
C7_FailedCreateWritesNothing ==
    [][(last'.op = "create" /\ last'.kind \in CreateErrors)
        => sessions' = sessions /\ pc' = pc /\ loaded' = loaded]_vars

C7_Witness ==
    /\ last.op = "create"
    /\ last.kind = ErrConflict
    /\ Cardinality(sessions) = 2

\* C8: update_session runs no conflict detection.  An update of an existing
\* session with values the columns accept is committed and answered 200 also
\* when the updated row overlaps another session of its artist and date.
C8_UpdateSkipsConflictCheck ==
    [][last'.op = "update" => \A id \in Ids(sessions) : \A patch \in UpdateInputs :
        (/\ UpdateSession(id, patch)
         /\ ~Refused(sessions, id, patch))
        => /\ last'.kind = "updated"
           /\ \E n \in sessions' :
                /\ n.id = last'.id
                /\ \A f \in SchemaFields : patch[f] # Missing => n[f] = patch[f].v]_vars

C8_Witness ==
    /\ last.op = "update"
    /\ last.kind = "updated"
    /\ \E a \in sessions : \E b \in sessions :
        a # b /\ b.id = last.id /\ Intersect(a, b)

\* C9: every persisted session has end_time > start_time, after any
\* sequence of create_session, update_session and delete_session.
C9_EndAfterStart == \A s \in sessions : s.end_time > s.start_time

\* C10: update_session on an id that no session has is answered 404
\* 'Session not found' and leaves table sessions as it was.
C10_UpdateAbsentIsNotFound ==
    [][last'.op = "update" => \A id \in SessionIds \cup {MaxId + 1} : \A patch \in UpdateInputs :
        ((\A s \in sessions : s.id # id) /\ UpdateSession(id, patch))
        => /\ last'.kind = ErrSession
           /\ sessions' = sessions]_vars

C10_Witness ==
    /\ last.op = "update"
    /\ last.kind = ErrSession
    /\ sessions # {}

\* C11: an update_session that is answered 200 replaces the session of the
\* given id by a session of the same id whose columns named in the payload
\* have the payload's values and whose other columns are as before, and
\* leaves every other session as it was.
C11_UpdateOverwritesNamedOnly ==
    [][(last'.op = "update" /\ last'.kind = "updated") =>
        \A id \in SessionIds : \A patch \in UpdateInputs :
            UpdateSession(id, patch) =>
                \E s \in sessions : \E n \in sessions' :
                    /\ s.id = id
                    /\ n.id = id
                    /\ \A f \in SchemaFields :
                        n[f] = IF patch[f] = Missing THEN s[f] ELSE patch[f].v
                    /\ sessions' \ {n} = sessions \ {s}]_vars

\* C12: delete_session is answered 204 whether or not the id exists.  On an
\* existing id it removes that session and no other, so no session has the
\* id afterwards; on an absent id it leaves the table as it was, which is
\* the case of a second delete of the same id.
C12_DeleteIdempotent ==
    [][last'.op = "delete" => \A id \in SessionIds :
        DeleteSession(id)
        => /\ last'.kind = "no_content"
           /\ \A s \in sessions' : s.id # id
           /\ \A s \in sessions : s.id # id => s \in sessions'
           /\ sessions' \subseteq sessions
           /\ (\A s \in sessions : s.id # id) => sessions' = sessions]_vars

C12_Witness ==
    /\ last.op = "delete"
    /\ Ids(sessions) = {2}

\* The exchanges whose identity token verifies and names an email.
VerifiedExchanges ==
    {ex \in Exchanges \ {ExchangeRaises} :
        ex.id_token # NoIdToken /\ ex.id_token.valid
        /\ ex.id_token.claims.email # NULL}

\* C13: a provider callback that succeeds for an email no user has inserts
\* exactly one user, with that email; one that succeeds for an email a user
\* has inserts none and, when the identity claims a display name other than
\* the stored one, stores the claimed name.  At all times no two users have
\* the same email.
C13_ReconcileOneUserPerEmail ==
    /\ [](\A u \in users : \A v \in users : u.email = v.email => u = v)
    /\ [][(last'.op = "callback" /\ last'.kind = "redirect_dashboard") =>
            \A ex \in VerifiedExchanges : Callback(ex) =>
                LET info == ex.id_token.claims
                    before == UsersByEmail(users, info.email)
                    after == UsersByEmail(users', info.email)
                IN  /\ Cardinality(after) = 1
                    /\ users' \ after = users \ before
                    /\ before = {} => \A n \in after : n.id \notin Ids(users)
                    /\ before # {} =>
                        /\ Ids(after) = Ids(before)
                        /\ info.name # NULL => \A n \in after : n.name = info.name]_vars

C13_Witness ==
    /\ last.op = "callback"
    /\ last.kind = "redirect_dashboard"
    /\ Cardinality(users) = 4
    /\ \E a \in users : \E c \in users :
        /\ a.email = "a@b.com" /\ a.name = "Bea"
        /\ a.password_hash = BcryptHash("pw1")
        /\ c.email = "c@d.com" /\ c.password_hash = BcryptHash(RandomPassword)

\* C14: a provider callback leaves the password_hash (and the id and the
\* email) of every user that existed before it as they were, so every
\* password that verified against a user's hash before the callback verifies
\* after it.
C14_CallbackKeepsPassword ==
    [][last'.op = "callback" =>
        \A u \in users : \E n \in users' :
            /\ n.id = u.id
            /\ n.email = u.email
            /\ n.password_hash = u.password_hash
            /\ \A p \in Passwords :
                BcryptVerify(p, u.password_hash) => BcryptVerify(p, n.password_hash)]_vars

C14_Witness ==
    /\ last.op = "callback"
    /\ last.kind = "redirect_dashboard"
    /\ session.user = Val(Indicator("a@b.com", "Bea", "pic"))
    /\ \E a \in users :
        /\ a.email = "a@b.com" /\ a.name = "Bea"
        /\ BcryptVerify("pw1", a.password_hash)

\* The exchanges that raise, that return no identity token, and that return
\* one that does not verify.
FailedExchanges ==
    {ex \in Exchanges :
        \/ ex = ExchangeRaises
        \/ ex.id_token = NoIdToken
        \/ ~ex.id_token.valid}

\* C15: a provider callback whose exchange raises, returns no identity token
\* or returns one that does not verify is answered 400 with an error, and
\* leaves table users and the "user", "jwt_token" and "credentials" keys of
\* the caller's session as they were.
C15_FailedCallbackPersistsNothing ==
    [][last'.op = "callback" => \A ex \in FailedExchanges :
        Callback(ex)
        => /\ last'.kind \in {ErrIdToken, ErrAuth}
           /\ users' = users
           /\ session'.user = session.user
           /\ session'.jwt_token = session.jwt_token
           /\ session'.credentials = session.credentials]_vars

\* C16: after a provider callback that succeeds the caller's session holds
\* the "user" key and the "jwt_token" key; the indicator's email, name and
\* picture are the claims of the verified identity token, and the token's
\* sub and email are that email, its name that name, its picture that
\* picture.
C16_CallbackAuthenticates ==
    [][(last'.op = "callback" /\ last'.kind = "redirect_dashboard") =>
        /\ session'.user # Missing
        /\ session'.jwt_token # Missing
        /\ session'.jwt_token.v.sub = session'.user.v.email
        /\ session'.jwt_token.v.email = session'.user.v.email
        /\ session'.jwt_token.v.name = session'.user.v.name
        /\ session'.jwt_token.v.picture = session'.user.v.picture
        /\ \A ex \in VerifiedExchanges : Callback(ex) =>
            session'.user.v = ex.id_token.claims]_vars

C16_Witness ==
    /\ last.op = "callback"
    /\ last.kind = "redirect_dashboard"
    /\ session.user = Val([email |-> "c@d.com", name |-> "Cy", picture |-> NULL])
    /\ session.jwt_token = Val([sub |-> "c@d.com", name |-> "Cy",
                                email |-> "c@d.com", picture |-> NULL])

\* C17: a request for the dashboard or for a clients page is served when
\* the caller's session holds the "user" key and is redirected to the login
\* step when it does not, and leaves the keys of the session as they were.
\* Once present, the key stays present in every request but a logout.
C17_ProtectedNeedsIndicator ==
    [][/\ last'.op \in {"dashboard", "clients"} =>
            /\ session.user # Missing => last'.kind = "served"
            /\ session.user = Missing => last'.kind = "redirect_login"
            /\ session' = session
       /\ (session.user # Missing /\ session'.user = Missing) =>
            last'.op = "logout"]_vars

C17_Witness ==
    /\ last.op = "clients"
    /\ last.kind = "served"
    /\ session.user # Missing
    /\ session.credentials # Missing

\* C18: a logout, whatever the session holds, leaves it without the
\* "user", "jwt_token" and "credentials" keys (and without any other) and
\* sends the caller to the login step; a request for the dashboard or a
\* clients page that comes next is redirected to the login step.
C18_LogoutClears ==
    [][/\ last'.op = "logout" =>
            /\ session'.user = Missing
            /\ session'.jwt_token = Missing
            /\ session'.credentials = Missing
            /\ session' = EmptySession
            /\ last'.kind = "redirect_login"
       /\ (last.op = "logout" /\ last'.op \in {"dashboard", "clients"}) =>
            last'.kind = "redirect_login"]_vars

C18_Witness ==
    /\ last.op = "dashboard"
    /\ last.kind = "redirect_login"
    /\ session = EmptySession
    /\ \E c \in users : c.password_hash = BcryptHash(RandomPassword)

\* C19: a local login is answered with the redirect to the dashboard
\* exactly when both fields are given, a user has the email and the password
\* verifies against that user's password_hash.  Then the session's "user"
\* key holds that user's email and name and no picture, and the other keys
\* (no token, no credential bundle is involved) are as before.  In every
\* other case the session is as before.  Table users is never written.
C19_LocalLoginExactlyWhenVerified ==
    [][last'.op = "login_local" =>
        \A email \in LoginEmails : \A password \in Passwords \cup {NULL} :
            LoginLocal(email, password) =>
                LET verified == {u \in users : /\ email # NULL
                                               /\ password # NULL
                                               /\ u.email = email
                                               /\ BcryptVerify(password, u.password_hash)}
                IN  /\ last'.kind = "redirect_dashboard" <=> verified # {}
                    /\ verified # {} =>
                        /\ \E u \in verified :
                            session'.user = Val([email |-> u.email, name |-> u.name,
                                                 picture |-> NULL])
                        /\ session' = [session EXCEPT !.user = session'.user]
                    /\ verified = {} => session' = session
                    /\ users' = users]_vars

C19_Witness ==
    /\ last.op = "login_local"
    /\ last.kind = "redirect_dashboard"
    /\ session = [EmptySession EXCEPT
                    !.user = Val([email |-> "a@b.com", name |-> "Bea", picture |-> NULL])]
    /\ \E u \in users : u.email = "a@b.com" /\ u.password_hash = BcryptHash("pw2")

\* C20: a registration with all fields given and an email that a user has
\* is answered 'Email already registered.' and leaves table users, so also
\* that user's name and password_hash, as it was.  With registrations made
\* one at a time no two users ever have the same email.
C20_RegisterExistingRejected ==
    /\ [][last'.op = "register" =>
            \A name \in {"Ann", "Bea"} : \A email \in Emails : \A password \in Passwords :
                (UsersByEmail(users, email) # {} /\ Register(name, email, password))
                => /\ last'.kind = MsgRegistered
                   /\ users' = users]_vars
    /\ [](\A u \in users : \A v \in users : u.id # v.id => u.email # v.email)

C20_Witness ==
    /\ last.op = "register"
    /\ last.kind = MsgRegistered
    /\ Cardinality(users) = 3
    /\ \E u \in users : /\ u.email = "c@d.com" /\ u.name = "Ann"
                        /\ u.password_hash = BcryptHash("pw1")

\* The overlap condition as the specification words it.
SameArtistDateOverlap(s, raw) ==
    /\ s.artist_id = raw.artist_id.v
    /\ s.date = raw.date.v
    /\ s.start_time < raw.end_time.v
    /\ s.end_time > raw.start_time.v

\* C24: a create_session that deserializes, has end > start and names an
\* existing artist and client is answered with the conflict error exactly
\* when some persisted session has the same artist, the same date,
\* start_time < the proposed end and end_time > the proposed start; in every
\* other case it passes and its insert adds the row, also when sessions of
\* another artist or another date overlap its times for the same client.
C24_ConflictExactlyOnSameArtistDate ==
    [][/\ last'.op = "create" => \A raw \in ForwardInputs :
            (Resolves(raw) /\ CreateCheck(1, raw))
            => /\ last'.kind = ErrConflict
                    <=> \E s \in sessions : SameArtistDateOverlap(s, raw)
               /\ last'.kind # ErrConflict
                    => /\ last'.kind = "pass"
                       /\ pc'[1] = "persist"
       /\ (pc[1] = "persist" /\ pc'[1] = "idle")
            => /\ last'.kind = "created"
               /\ Cardinality(sessions') = Cardinality(sessions) + 1]_vars

C24_Witness ==
    /\ last.kind = "created"
    /\ \E a \in sessions : \E b \in sessions :
        /\ b.id = last.id
        /\ a.artist_id # b.artist_id
        /\ a.client_id = b.client_id
        /\ a.date = b.date
        /\ a.start_time < b.end_time
        /\ a.end_time > b.start_time

\* The first of the five checks a payload fails, "pass" when it fails none.
FirstFailure(raw) ==
    IF ~WellFormed(raw) THEN "field_errors"
    ELSE IF raw.end_time.v <= raw.start_time.v THEN ErrTimeRange
    ELSE IF raw.artist_id.v \notin Ids(users) THEN ErrArtist
    ELSE IF raw.client_id.v \notin Ids(clients) THEN ErrClient
    ELSE IF \E s \in sessions : SameArtistDateOverlap(s, raw) THEN ErrConflict
    ELSE "pass"

\* C25: create_session reports the first failure in the order structural
\* validation, time range, artist, client, conflict, and no other: a payload
\* with end_time <= start_time and an unknown artist is answered with the
\* time-range error, one with both references unknown with 'Artist not
\* found.', one with an unknown client that would also overlap with 'Client
\* not found.'.
C25_FirstFailureReported ==
    [][last'.op = "create" => \A raw \in OrderInputs :
        CreateCheck(1, raw) => last'.kind = FirstFailure(raw)]_vars

\* Both artists have a session on date 1, in slot 0..2 or 1..3, and every
\* payload that can be answered 'Client not found.' overlaps the session of
\* its artist.
C25_Witness ==
    /\ last.op = "create"
    /\ last.kind = ErrClient
    /\ \A a \in Ids(users) : \E s \in sessions : s.artist_id = a

\* The columns of a payload as the specification words them: each member's
\* value, NULL for notes the payload leaves out.
PayloadColumns(raw) ==
    [f \in SchemaFields |->
        IF raw[f] = Missing THEN NULL ELSE raw[f].v]

\* C26: a create_session that succeeds adds exactly one session whose
\* artist, client, date, times and notes are the payload's and whose id no
\* other persisted session has, returns that id in its body, and leaves the
\* sessions persisted before as they were.
C26_CreateAddsExactlyOne ==
    [][/\ (last'.op = "create" /\ last'.kind = "pass") =>
            \A raw \in WellFormedInputs :
                (\E f \in SchemaFields : loaded'[1][f] # PayloadColumns(raw)[f])
                => ~CreateCheck(1, raw)
       /\ (pc[1] = "persist" /\ pc'[1] = "idle")
            => /\ last'.kind = "created"
               /\ last'.id \notin Ids(sessions)
               /\ \E n \in sessions' :
                    /\ n.id = last'.id
                    /\ \A f \in SchemaFields : n[f] = loaded[1][f]
                    /\ sessions' \ {n} = sessions]_vars

C26_Witness ==
    /\ last.kind = "created"
    /\ Cardinality(sessions) = 2
    /\ \E n \in sessions : n.id = last.id /\ n.notes # NULL


\* C27: the provider login goes Unauthenticated -> AwaitingCallback ->
\* Authenticated: a callback authenticates only a caller whose session holds
\* the anti-forgery state that a preceding login request stored.
C27_CallbackOnlyWhenAwaiting ==
    [][(last'.op = "callback" /\ last'.kind = "redirect_dashboard")
        => session.flow_state # Missing]_vars


\* C21: a reset token that was handed out more than MaxAge (one hour) ago
\* is answered 'The password reset link has expired.'; a token whose payload
\* was changed or that was signed with another key is answered 'Invalid
\* password reset token.'; neither request changes table users.
C21_StaleOrForgedTokenRejected ==
    [][last'.op = "reset_password" =>
        \A token \in PresentedTokens : \A form \in ResetForms :
            ResetPassword(form.post, token, form.password, form.confirm_password) =>
                /\ (token \in links /\ now - token.ts > MaxAge)
                    => last'.kind = MsgExpired /\ users' = users
                /\ token \notin links
                    => last'.kind = MsgInvalidToken /\ users' = users]_vars

C21_Witness ==
    /\ last.op = "reset_password"
    /\ last.kind = MsgExpired
    /\ \E t \in links : /\ now - t.ts > MaxAge
                        /\ \E u \in users : u.email = t.email

\* C22: a reset with a token that was handed out for an email at most an
\* hour ago, and a new password given twice, leaves the user of that email
\* with a hash that verifies the new password and no other, and leaves the
\* other users as they were; and a local login for an email whose user has a
\* password is let in exactly with the password the hash was made of.
C22_ResetThenLogin ==
    [][/\ (last'.op = "reset_password" /\ last'.kind = MsgUpdated) =>
            \A token \in links : \A new_password \in Passwords :
                ResetPassword(TRUE, token, new_password, new_password) =>
                    /\ \E u \in users' : u.email = token.email
                    /\ \A u \in users' : u.email = token.email =>
                        \A password \in Passwords :
                            BcryptVerify(password, u.password_hash)
                                <=> password = new_password
                    /\ {u \in users' : u.email # token.email}
                            = {u \in users : u.email # token.email}
       /\ last'.op = "login_local" =>
            \A email \in ResetEmails : \A password \in Passwords :
                (/\ LoginLocal(email, password)
                 /\ \E u \in users : u.email = email)
                => (/\ last'.kind = "redirect_dashboard"
                    /\ session'.user # Missing)
                    <=> \E u \in users : /\ u.email = email
                                         /\ u.password_hash.scheme = "bcrypt"
                                         /\ u.password_hash.secret = password]_vars

C22_Witness ==
    /\ last.op = "login_local"
    /\ last.kind = "redirect_dashboard"
    /\ session.user # Missing
    /\ \E u \in users : /\ u.email = "a@b.com"
                        /\ u.password_hash.secret = "pw2"


\* C30: the caller's session gains the "user" key only in a local login
\* whose password the user's hash verifies or in a callback whose identity
\* token verifies: registration, a reset request, a reset, a local login
\* that fails and a callback that fails leave a session without the key
\* without it.
C30_IndicatorOnlyByLogin ==
    [][(session.user = Missing /\ session'.user # Missing) =>
        \/ /\ last'.op = "login_local"
           /\ last'.kind = "redirect_dashboard"
           /\ \E email \in ResetEmails : \E password \in Passwords :
                /\ LoginLocal(email, password)
                /\ \E u \in users : /\ u.email = email
                                    /\ u.password_hash.scheme = "bcrypt"
                                    /\ u.password_hash.secret = password
        \/ /\ last'.op = "callback"
           /\ last'.kind = "redirect_dashboard"
           /\ \E ex \in VerifiedExchanges : Callback(ex)]_vars

C30_Witness ==
    /\ last.op = "reset_password"
    /\ last.kind = MsgUpdated
    /\ session.user = Missing
    /\ held = {}


\* C28: with registrations and first provider logins for one email served
\* concurrently, no email ever has two users: the request that commits
\* second is refused by the unique key of users.email, is answered with an
\* error, inserts nothing and leaves the row of the first as it was.
C28_OneUserPerEmailUnderRace ==
    /\ [](\A email \in Emails : Cardinality(UsersByEmail(users, email)) <= 1)
    /\ [][\A w \in Workers :
            (/\ pc[w] \in {"register_insert", "callback_insert"}
             /\ pc'[w] = "idle"
             /\ UsersByEmail(users, loaded[w].email) # {})
            => /\ users' = users
               /\ last'.kind = IF pc[w] = "register_insert"
                               THEN MsgDbError ELSE ErrAuth]_vars

C28_Witness ==
    /\ last.op = "register"
    /\ last.kind = MsgDbError
    /\ \E u \in users : u.email = "a@b.com" /\ u.name = "Ann G"


\* C23: every operation closes the database session it opened before it
\* returns, on every path: none of the auth routes (register, local login,
\* callback, password reset) and none of the scheduler's operations returns
\* with its session open.
C23_SessionsReleased == held = {}


\* C29: in every reachable state the artist_id of every persisted session
\* is the id of a user and its client_id the id of a client, after any
\* sequence of create_session, update_session, delete_session and deletions
\* of clients by the user that owns them.
C29_ReferencesResolve ==
    \A s \in sessions : s.artist_id \in Ids(users) /\ s.client_id \in Ids(clients)


====
